---- MODULE Spec2Model ----
(***************************************************************************)
(* Model of spid_oidc_rp/views.py: the OpenID-Connect relying party's      *)
(* begin view (AgidOidcRpBeginView), callback view                         *)
(* (AgidOidcRpCallbackView) and logout view (oidc_rpinitiated_logout),      *)
(* with the stores they read and write (OidcAuthenticationRequest,         *)
(* OidcAuthenticationToken, the user model) and the provider they talk to. *)
(* Spec is the program; SpecMapper and SpecReunification apply             *)
(* process_user_attributes and user_reunification on their own to inputs   *)
(* drawn from bounded sets.                                                *)
(***************************************************************************)
EXTENDS Integers, Sequences, FiniteSets, TLC

\* ------------------------------------------------------------- bounds ----
\* OidcAuthenticationRequest rows that begin requests may create.
MaxFlows == 2
\* Callback requests served (each may run concurrently with the others).
NumCallbacks == 2

\* Later applications of user_reunification to the same attributes, when it
\* is applied on its own.
MaxLaterLogins == 2

\* Python's None, and a missing query parameter.
NoneV == "None"

\* ------------------------------------------------------ configuration ----
\* settings.JWTCONN_RP_CLIENTS: issuer_id -> client configuration.  Only the
\* keys the views read are kept.  add_ons_pkce is client_conf['add_ons']['pkce']
\* being present.
\* user_attributes_map is a sequence of <<target field, candidates>>, in the
\* dict's order; a candidate is a claim name or a transform [func |-> name].
\* A candidate is the pair <<kind, name>>, kind "claim" or "func".
MapWithTransform ==
    << <<"username", << <<"func", "issuer_prefixed_sub">> >> >>,
       <<"email", << <<"claim", "mail">>, <<"claim", "email">> >> >> >>

MapClaimsOnly ==
    << <<"email", << <<"claim", "mail">>, <<"claim", "email">> >> >> >>

ClientI1 ==
    [issuer |-> "https://op1", client_id |-> "rp1", add_ons_pkce |-> TRUE,
     user_attributes_map |-> MapWithTransform,
     user_lookup_field |-> <<"email">>, user_create |-> TRUE]

ClientI2 ==
    [issuer |-> "https://op2", client_id |-> "rp2", add_ons_pkce |-> FALSE,
     user_attributes_map |-> MapClaimsOnly,
     user_lookup_field |-> <<"username", "email">>, user_create |-> FALSE]

\* The deployments considered: no issuer, one issuer (with a PKCE add-on),
\* two issuers (the second without a PKCE add-on).
Deployments ==
    { [i \in {} |-> ClientI1],
      [i \in {"i1"} |-> ClientI1],
      [i \in {"i1", "i2"} |-> IF i = "i1" THEN ClientI1 ELSE ClientI2] }

\* Values of the issuer_id query parameter of a begin request.
IssuerIdParams == {NoneV, "i1", "i2", "ix"}

\* ----------------------------------------------------------- provider ----
\* What the provider serves at a given time: its discovery document and its
\* key set (the ids of the keys of its JWKS document).  The second state is
\* the provider after it has moved its endpoints and rotated its keys.
ProviderStates ==
    { [conf |-> [authorization_endpoint |-> "https://op/authz",
                 token_endpoint |-> "https://op/token",
                 userinfo_endpoint |-> "https://op/userinfo",
                 end_session_endpoint |-> "https://op/logout"],
       jwks |-> {"K1"}],
      [conf |-> [authorization_endpoint |-> "https://op/authz",
                 token_endpoint |-> "https://op/token2",
                 userinfo_endpoint |-> "https://op/userinfo2",
                 end_session_endpoint |-> NoneV],
       jwks |-> {"K2"}] }

VARIABLES
    clients,         \* settings.JWTCONN_RP_CLIENTS
    provider_conf,   \* the discovery document the provider serves now
    provider_jwks,   \* the key set the provider serves now
    flows,           \* OidcAuthenticationRequest rows, in creation order
    begin_resp,      \* the response of the latest begin request
    tokens,          \* OidcAuthenticationToken rows, in creation order
    users,           \* the rows of the user model, in creation order
    runs,            \* the callback requests: position, locals, response
    LOGOUT_REDIRECT_URL,  \* settings.LOGOUT_REDIRECT_URL
    logout_resp,     \* the logout request being answered, with its response
    mapper_call,     \* one application of process_user_attributes
    reunification_call  \* one application of user_reunification

vars == <<clients, provider_conf, provider_jwks, flows, begin_resp, tokens, users,
          runs, LOGOUT_REDIRECT_URL, logout_resp, mapper_call, reunification_call>>

\* What the begin view and the callback view never write.
logout_and_calls == <<LOGOUT_REDIRECT_URL, logout_resp, mapper_call, reunification_call>>

\* ------------------------------------------------- logout responses ----
\* No logout request is being answered.
NoLogout ==
    [user |-> 0, kind |-> "none", error |-> NoneV, auth_token |-> 0,
     end_session_url |-> NoneV, url |-> NoneV, id_token_hint |-> NoneV,
     post_logout_redirect_uri |-> NoneV]

\* No logout response is waiting to be sent.  The response of a logout
\* request is sent before the next request is served: the views are served
\* while none is waiting.
NoLogoutPending == logout_resp.kind = "none"

\* ------------------------------------------------------------ helpers ----
\* dict.update(other): other's keys win.
DictUpdate(d, other) ==
    [k \in DOMAIN d \cup DOMAIN other |-> IF k \in DOMAIN other THEN other[k] ELSE d[k]]

\* The dict without key k.
DictWithout(d, k) == [x \in DOMAIN d \ {k} |-> d[x]]

\* utils.random_string: a value no earlier call returned; n counts the calls.
random_string(prefix, n) == prefix \o ToString(n)

\* The PKCE add-on's function: the verifier and its S256 challenge.
pkce_func(n) ==
    [k \in {"code_verifier", "code_challenge", "code_challenge_method"} |->
        CASE k = "code_verifier" -> random_string("verifier", n)
          [] k = "code_challenge" -> "S256(" \o random_string("verifier", n) \o ")"
          [] OTHER -> "S256"]

\* ---------------------------------------------------------- begin view ----
NoUrl == [endpoint |-> NoneV, params |-> [x \in {} |-> NoneV]]

\* AgidOidcRpBeginView.get_oidc_rp_issuer: the issuer selected for the
\* request, or the exception raised.
get_oidc_rp_issuer(issuer_id) ==
    LET available_issuers == DOMAIN clients
        available_issuers_len == Cardinality(available_issuers)
    IN  IF issuer_id = NoneV
        THEN IF available_issuers_len > 1
             THEN \* raise NotImplemented(): NotImplemented is not callable
                  [exc |-> "TypeError", issuer_id |-> NoneV]
             ELSE IF available_issuers_len = 1
             THEN [exc |-> NoneV, issuer_id |-> CHOOSE i \in available_issuers : TRUE]
             ELSE [exc |-> "MisconfiguredClientIssuer", issuer_id |-> NoneV]
        ELSE IF issuer_id \in available_issuers
             THEN [exc |-> NoneV, issuer_id |-> issuer_id]
             ELSE \* available_issuers[issuer_id]
                  [exc |-> "KeyError", issuer_id |-> issuer_id]

\* authz_data as built by the begin view, before the PKCE add-on.
AuthzData(client_conf, authz_endpoint, n) ==
    [k \in {"scope", "redirect_uri", "response_type", "nonce", "state",
            "client_id", "endpoint"} |->
        CASE k = "scope" -> "openid"
          [] k = "redirect_uri" -> "https://rp/callback"
          [] k = "response_type" -> "code"
          [] k = "nonce" -> random_string("nonce", n)
          [] k = "state" -> random_string("state", n)
          [] k = "client_id" -> client_conf.client_id
          [] OTHER -> authz_endpoint]

\* has_pkce ... authz_data.update(pkce_values)
WithPkce(client_conf, authz_data, n) ==
    IF client_conf.add_ons_pkce THEN DictUpdate(authz_data, pkce_func(n)) ELSE authz_data

\* A begin view that stores the nonce where the state belongs.
AuthzEntryKeyedByNonce(issuer_id, client_conf, authz_data, conf, jwks) ==
    [client_id |-> client_conf.client_id,
     state |-> authz_data["nonce"],
     endpoint |-> conf.authorization_endpoint,
     issuer |-> client_conf.issuer,
     issuer_id |-> issuer_id,
     data |-> authz_data,
     provider_jwks |-> jwks,
     provider_configuration |-> conf]

\* The OidcAuthenticationRequest row the begin view creates.
AuthzEntry(issuer_id, client_conf, authz_data, conf, jwks) ==
    [client_id |-> client_conf.client_id,
     state |-> authz_data["state"],
     endpoint |-> conf.authorization_endpoint,
     issuer |-> client_conf.issuer,
     issuer_id |-> issuer_id,
     data |-> authz_data,
     provider_jwks |-> jwks,
     provider_configuration |-> conf]

\* authz_data.pop('code_verifier'): raises KeyError when the key is absent.
PopRaises(authz_data) == "code_verifier" \notin DOMAIN authz_data

\* A begin view that builds the redirect URL without the pop.
RedirectParamsUnpopped(authz_data) == authz_data

\* The parameters of the redirect URL: authz_data after the pop.
RedirectParams(authz_data) == DictWithout(authz_data, "code_verifier")

\* The response of a begin request, with what the request did: the issuer it
\* selected, the network calls it made, the rows it created.
BeginResp(param, issuer_id, kind, error, url, calls, created) ==
    [issuer_id_param |-> param, issuer_id |-> issuer_id, kind |-> kind,
     error |-> error, url |-> url, net_calls |-> calls, created |-> created]

\* AgidOidcRpBeginView.get, for a request with the given issuer_id parameter;
\* discovery_ok and jwks_ok are the outcomes of the two network calls.
Begin(param, discovery_ok, jwks_ok) ==
    LET sel == get_oidc_rp_issuer(param)
    IN  /\ NoLogoutPending
        /\ Len(flows) < MaxFlows
        /\ IF sel.exc # NoneV
           THEN /\ begin_resp' = BeginResp(param, sel.issuer_id, "exception", sel.exc,
                                           NoUrl, {}, 0)
                /\ UNCHANGED flows
           ELSE IF ~discovery_ok
           THEN /\ begin_resp' = BeginResp(param, sel.issuer_id, "bad_request",
                                    "Failed to get provider discovery", NoUrl,
                                    {"discovery"}, 0)
                /\ UNCHANGED flows
           ELSE IF ~jwks_ok
           THEN /\ begin_resp' = BeginResp(param, sel.issuer_id, "bad_request",
                                    "Failed to get jwks", NoUrl,
                                    {"discovery", "jwks"}, 0)
                /\ UNCHANGED flows
           ELSE LET client_conf == clients[sel.issuer_id]
                    n == Len(flows) + 1
                    authz_endpoint == provider_conf.authorization_endpoint
                    authz_data == WithPkce(client_conf,
                                      AuthzData(client_conf, authz_endpoint, n), n)
                    entry == AuthzEntry(sel.issuer_id, client_conf, authz_data,
                                        provider_conf, provider_jwks)
                IN  /\ flows' = Append(flows, entry)
                    /\ begin_resp' =
                         IF PopRaises(authz_data)
                         THEN BeginResp(param, sel.issuer_id, "exception", "KeyError",
                                        NoUrl, {"discovery", "jwks"}, 1)
                         ELSE BeginResp(param, sel.issuer_id, "redirect", NoneV,
                                        [endpoint |-> authz_endpoint,
                                         params |-> RedirectParams(authz_data)],
                                        {"discovery", "jwks"}, 1)
        /\ UNCHANGED <<logout_and_calls, clients, provider_conf, provider_jwks, tokens,
                       users, runs>>

BeginRequest ==
    \E param \in IssuerIdParams, discovery_ok \in BOOLEAN, jwks_ok \in BOOLEAN :
        Begin(param, discovery_ok, jwks_ok)

\* ------------------------------------------------------- callback view ----
\* Values of the state query parameter of a callback request.
StateParams == {NoneV, "bogus"} \cup {random_string("state", n) : n \in 1..MaxFlows}

\* The query of a callback request: an authorization response carries code,
\* an error response carries error and no code.
CallbackQueries ==
    { [state |-> s, code |-> "code1", error |-> NoneV] : s \in StateParams } \cup
    { [state |-> s, code |-> NoneV, error |-> "access_denied"] : s \in StateParams }

\* What access_token_request returns: None (a failed exchange), or the token
\* response.  A token names the key that signed it; an opaque access token
\* is no JWT.
NoTokenResponse ==
    [access_token |-> NoneV, id_token |-> NoneV, scope |-> NoneV,
     token_type |-> NoneV, expires_in |-> NoneV]

TokenResponses ==
    { [access_token |-> a, id_token |-> i, scope |-> "openid",
       token_type |-> "Bearer", expires_in |-> "3600"] :
         a \in {"at.K1", "at.opaque"}, i \in {"id.K1", "id.K2"} }

SigningKey(jwt) ==
    CASE jwt \in {"at.K1", "id.K1"} -> "K1"
      [] jwt \in {"id.K2"} -> "K2"
      [] OTHER -> NoneV

\* OAuth2BaseView.validate_jwt: the token is a JWT signed by a key of keyjar.
validate_jwt(jwt, keyjar) == SigningKey(jwt) \in keyjar

\* OidcAuthenticationRequest.get_provider_configuration and
\* get_provider_keyjar: the snapshots stored in the row.
get_provider_configuration(authz) == authz.provider_configuration

get_provider_keyjar(authz) == authz.provider_jwks

\* What get_userinfo returns: a falsy value (a failed call), or the claims.
EmptyDict == [x \in {} |-> NoneV]

Userinfos ==
    { [sub |-> "u1", email |-> "a@b.it"],
      [sub |-> "u1", mail |-> "x@y.it", email |-> "a@b.it"],
      [sub |-> "u1"],
      [email |-> "a@b.it"] }

\* str.lower on the mail values considered.
Lower(str) == IF str = "X@Y.it" THEN "x@y.it" ELSE str

\* Whether a transform raises: both index the userinfo with a claim name
\* (KeyError when the claim is missing).
TransformRaises(func, userinfo, client_conf, authz) ==
    IF func = "issuer_prefixed_sub"
    THEN "sub" \notin DOMAIN userinfo
    ELSE "mail" \notin DOMAIN userinfo

\* The transforms: processors.issuer_prefixed_sub, the transform of
\* MapWithTransform, and lower_mail, which returns userinfo['mail'].lower().
Transform(func, userinfo, client_conf, authz) ==
    IF func = "issuer_prefixed_sub"
    THEN client_conf.issuer \o "__" \o userinfo["sub"]
    ELSE Lower(userinfo["mail"])

\* One candidate of process_user_attributes: whether it yields, and what, or
\* whether it raises.
Candidate(i, userinfo, client_conf, authz) ==
    IF i[1] = "claim"
    THEN IF i[2] \in DOMAIN userinfo
         THEN [found |-> TRUE, value |-> userinfo[i[2]], raised |-> FALSE]
         ELSE [found |-> FALSE, value |-> "", raised |-> FALSE]
    ELSE IF TransformRaises(i[2], userinfo, client_conf, authz)
    THEN [found |-> FALSE, value |-> "", raised |-> TRUE]
    ELSE LET value == Transform(i[2], userinfo, client_conf, authz)
         IN  [found |-> value # "", value |-> value, raised |-> FALSE]

\* The inner loop of process_user_attributes over the candidates v, from n.
RECURSIVE FirstCandidate(_, _, _, _, _)
FirstCandidate(v, n, userinfo, client_conf, authz) ==
    IF n > Len(v)
    THEN [found |-> FALSE, value |-> "", raised |-> FALSE]
    ELSE LET r == Candidate(v[n], userinfo, client_conf, authz)
         IN  IF r.found \/ r.raised THEN r
             ELSE FirstCandidate(v, n + 1, userinfo, client_conf, authz)

\* process_user_attributes raises: a transform it reaches raises (line 162
\* is not inside a try).
MapperRaises(userinfo, client_conf, authz) ==
    LET user_map == client_conf.user_attributes_map
    IN  \E j \in 1..Len(user_map) :
           FirstCandidate(user_map[j][2], 1, userinfo, client_conf, authz).raised

\* AgidOidcRpCallbackView.process_user_attributes, when it returns.
process_user_attributes(userinfo, client_conf, authz) ==
    LET user_map == client_conf.user_attributes_map
        hit(j) == FirstCandidate(user_map[j][2], 1, userinfo, client_conf, authz)
        found == {j \in 1..Len(user_map) : hit(j).found}
    IN  [k \in {user_map[j][1] : j \in found} |->
            hit(CHOOSE j \in found : user_map[j][1] = k).value]

\* The fields of the user model; a new row has them empty.
UserFields == {"username", "email"}

\* A test of the key's presence instead of its value's truth.
PresentKey(d, k) == k \in DOMAIN d

\* dict.get(key) being truthy.
Truthy(d, k) == k \in DOMAIN d /\ d[k] # "" /\ d[k] # NoneV

\* user_model.objects.filter(**lookup).first(): the matching row of lowest
\* primary key, 0 when there is none.
FilterFirst(store, field_name, value) ==
    LET m == {u \in 1..Len(store) : store[u][field_name] = value}
    IN  IF m = {} THEN 0 ELSE CHOOSE u \in m : \A w \in m : u <= w

\* The loop of user_reunification over field_names, from n: the first
\* matching user, 0 when no lookup field matches.
RECURSIVE LookupUser(_, _, _, _)
LookupUser(store, field_names, n, user_attrs) ==
    IF n > Len(field_names) THEN 0
    ELSE LET field_name == field_names[n]
             user == IF Truthy(user_attrs, field_name)
                     THEN FilterFirst(store, field_name, user_attrs[field_name])
                     ELSE 0
         IN  IF user # 0 THEN user
             ELSE LookupUser(store, field_names, n + 1, user_attrs)

\* setattr(user, k, v) for every mapped attribute but username.
UpdatedUser(user, user_attrs) ==
    [k \in DOMAIN user |->
        IF k # "username" /\ k \in DOMAIN user_attrs THEN user_attrs[k] ELSE user[k]]

\* user_model.objects.create(**user_attrs) raises: an unknown field, or a
\* username some row already has.
CreateRaises(store, user_attrs) ==
    \/ ~(DOMAIN user_attrs \subseteq UserFields)
    \/ \E u \in 1..Len(store) :
          store[u]["username"] =
              (IF "username" \in DOMAIN user_attrs THEN user_attrs["username"] ELSE "")

\* A creation that stores none of the attributes.
BlankUser(user_attrs) == [k \in UserFields |-> ""]

\* user_model.objects.create(**user_attrs): the new row.
NewUser(user_attrs) ==
    [k \in UserFields |-> IF k \in DOMAIN user_attrs THEN user_attrs[k] ELSE ""]

\* A reunification that creates a user whatever user_create says.
reunification_creating_always(store, user_attrs, client_conf) ==
    LET user == LookupUser(store, client_conf.user_lookup_field, 1, user_attrs)
    IN  IF user # 0
        THEN [user |-> user,
              users |-> [store EXCEPT ![user] = UpdatedUser(@, user_attrs)]]
        ELSE IF ~CreateRaises(store, user_attrs)
        THEN [user |-> Len(store) + 1, users |-> Append(store, NewUser(user_attrs))]
        ELSE [user |-> 0, users |-> store]

\* AgidOidcRpCallbackView.user_reunification: the user returned (0 for None)
\* and the user table afterwards.
user_reunification(store, user_attrs, client_conf) ==
    LET user == LookupUser(store, client_conf.user_lookup_field, 1, user_attrs)
    IN  IF user # 0
        THEN [user |-> user,
              users |-> [store EXCEPT ![user] = UpdatedUser(@, user_attrs)]]
        ELSE IF client_conf.user_create /\ ~CreateRaises(store, user_attrs)
        THEN [user |-> Len(store) + 1, users |-> Append(store, NewUser(user_attrs))]
        ELSE [user |-> 0, users |-> store]

\* A request's call to the token endpoint.
NoTokenCall ==
    [made |-> FALSE, endpoint |-> NoneV, code |-> NoneV, code_verifier |-> NoneV]

\* A callback request that has not arrived yet.
IdleRun ==
    [pc |-> "idle", query |-> [state |-> NoneV, code |-> NoneV, error |-> NoneV],
     replay |-> FALSE, authz |-> 0, authz_token |-> 0,
     token_call |-> NoTokenCall, token_request |-> NoTokenResponse,
     keyjar |-> {}, userinfo_call |-> NoneV, userinfo |-> EmptyDict,
     user_attrs |-> EmptyDict, user |-> 0, login |-> 0, response |-> NoneV]

\* Whether some callback carrying this state has entered the token exchange.
Exchanged(state) ==
    \E q \in 1..NumCallbacks : runs[q].token_call.made /\ runs[q].query.state = state

\* A lookup that takes the last row whatever its state.
LastOfAll(state) == Len(flows)

\* OidcAuthenticationRequest.objects.filter(state=...).last(): the matching
\* row of highest primary key, 0 when there is none.
FilterLast(state) ==
    LET m == {a \in 1..Len(flows) : flows[a].state = state}
    IN  IF m = {} THEN 0 ELSE CHOOSE a \in m : \A b \in m : a >= b

Finish(p, run, response) ==
    runs' = [runs EXCEPT ![p] = [run EXCEPT !.pc = "done", !.response = response]]

\* The OidcAuthenticationToken row created at lines 214-217.
NewToken(authz, code) ==
    [authz_request |-> authz, code |-> code, access_token |-> NoneV,
     id_token |-> NoneV, scope |-> NoneV, token_type |-> NoneV,
     expires_in |-> NoneV, user |-> 0, logged_out |-> NoneV]

\* Lines 200-217: the request arrives, its flow is looked up and, when there
\* is one, the token row is created.  Requests are numbered in the order of
\* their arrival.
CbLookup(p, query) ==
    LET authz == FilterLast(query.state)
        run == [runs[p] EXCEPT !.query = query, !.replay = Exchanged(query.state),
                               !.authz = authz]
    IN  /\ NoLogoutPending
        /\ runs[p].pc = "idle"
        /\ \A q \in 1..(p - 1) : runs[q].pc # "idle"
        /\ IF authz = 0
           THEN /\ Finish(p, run, "Unsolicited response")
                /\ UNCHANGED tokens
           ELSE /\ tokens' = Append(tokens, NewToken(authz, query.code))
                /\ runs' = [runs EXCEPT ![p] =
                              [run EXCEPT !.pc = "token_exchange",
                                          !.authz_token = Len(tokens) + 1]]
        /\ UNCHANGED <<logout_and_calls, clients, provider_conf, provider_jwks, flows,
                       begin_resp, users>>

\* The call of lines 219-228.
TokenCall(authz, code) ==
    [made |-> TRUE,
     endpoint |-> get_provider_configuration(authz).token_endpoint,
     code |-> code,
     code_verifier |-> IF "code_verifier" \in DOMAIN authz.data
                       THEN authz.data["code_verifier"] ELSE NoneV]

\* A callback that validates against the keys the provider serves now.
CurrentKeyjar(authz) == provider_jwks

\* Line 235: the key set the tokens are validated against.
CallbackKeyjar(authz) == get_provider_keyjar(authz)

\* A callback that also rejects on a failed access token validation.
BothTokensAccepted(token_request, keyjar) ==
    validate_jwt(token_request.access_token, keyjar)
        /\ validate_jwt(token_request.id_token, keyjar)

\* A callback that passes over a failed validation of either token.
NeitherTokenDecides(token_request, keyjar) ==
    LET access_ok == validate_jwt(token_request.access_token, keyjar)
        id_ok == validate_jwt(token_request.id_token, keyjar)
    IN  (access_ok \/ TRUE) /\ (id_ok \/ TRUE)

\* Lines 237-246: whether the callback goes on after validating both tokens.
\* A failed validation of the access token is passed over.
TokensAccepted(token_request, keyjar) ==
    LET access_ok == validate_jwt(token_request.access_token, keyjar)
        id_ok == validate_jwt(token_request.id_token, keyjar)
    IN  (access_ok \/ TRUE) /\ id_ok

\* The token row as saved at lines 256-261.
SavedToken(row, token_request) ==
    [row EXCEPT !.access_token = token_request.access_token,
                !.id_token = token_request.id_token,
                !.scope = token_request.scope,
                !.token_type = token_request.token_type,
                !.expires_in = token_request.expires_in]

\* What the token endpoint may answer: a request without a code is refused.
TokenAnswers(code) ==
    IF code = NoneV THEN {NoTokenResponse} ELSE TokenResponses \cup {NoTokenResponse}

\* Lines 219-261: the token exchange, which returns token_request, the
\* validation of the tokens and the saving of the token row.
CbTokenExchange(p, token_request) ==
    LET authz == flows[runs[p].authz]
        keyjar == CallbackKeyjar(authz)
        run == [runs[p] EXCEPT
                  !.token_call = TokenCall(authz, runs[p].query.code),
                  !.token_request = token_request]
    IN  /\ NoLogoutPending
        /\ runs[p].pc = "token_exchange"
        /\ token_request \in TokenAnswers(runs[p].query.code)
        /\ IF token_request = NoTokenResponse
           THEN /\ Finish(p, run, "Authentication token seems not to be valid.")
                /\ UNCHANGED tokens
           ELSE IF ~TokensAccepted(token_request, keyjar)
           THEN /\ Finish(p, [run EXCEPT !.keyjar = keyjar],
                          "Authentication token validation error.")
                /\ UNCHANGED tokens
           ELSE /\ runs' = [runs EXCEPT ![p] =
                              [run EXCEPT !.pc = "userinfo", !.keyjar = keyjar]]
                /\ tokens' = [tokens EXCEPT ![runs[p].authz_token] =
                                SavedToken(@, token_request)]
        /\ UNCHANGED <<logout_and_calls, clients, provider_conf, provider_jwks, flows,
                       begin_resp, users>>

\* Lines 263-297: the userinfo call, which returns userinfo, the attribute
\* mapping, the user reunification, the session login and the redirect.
CbUserinfo(p, userinfo) ==
    LET authz == flows[runs[p].authz]
        client_conf == clients[authz.issuer_id]
        user_attrs == process_user_attributes(userinfo, client_conf, authz)
        res == user_reunification(users, user_attrs, client_conf)
        run == [runs[p] EXCEPT
                  !.userinfo_call = get_provider_configuration(authz).userinfo_endpoint,
                  !.userinfo = userinfo]
    IN  /\ NoLogoutPending
        /\ runs[p].pc = "userinfo"
        /\ IF userinfo = EmptyDict
           THEN /\ Finish(p, run, "UserInfo response seems not to be valid.")
                /\ UNCHANGED <<users, tokens>>
           ELSE IF "sub" \notin DOMAIN userinfo
           THEN /\ Finish(p, run, "KeyError")           \* userinfo["sub"], line 270
                /\ UNCHANGED <<users, tokens>>
           ELSE IF MapperRaises(userinfo, client_conf, authz)
           THEN /\ Finish(p, run, "KeyError")           \* the transform, line 162
                /\ UNCHANGED <<users, tokens>>
           ELSE IF user_attrs = EmptyDict
           THEN /\ Finish(p, [run EXCEPT !.user_attrs = user_attrs],
                          "PermissionDenied: No user attributes have been processed")
                /\ UNCHANGED <<users, tokens>>
           ELSE IF res.user = 0
           THEN /\ Finish(p, [run EXCEPT !.user_attrs = user_attrs], "PermissionDenied")
                /\ users' = res.users
                /\ UNCHANGED tokens
           ELSE /\ Finish(p, [run EXCEPT !.user_attrs = user_attrs,
                                         !.user = res.user, !.login = res.user],
                          "redirect")
                /\ users' = res.users
                /\ tokens' = [tokens EXCEPT ![runs[p].authz_token].user = res.user]
        /\ UNCHANGED <<logout_and_calls, clients, provider_conf, provider_jwks, flows,
                       begin_resp>>

Callback ==
    \E p \in 1..NumCallbacks :
        \/ \E query \in CallbackQueries : CbLookup(p, query)
        \/ \E token_request \in TokenResponses \cup {NoTokenResponse} :
              CbTokenExchange(p, token_request)
        \/ \E userinfo \in Userinfos \cup {EmptyDict} : CbUserinfo(p, userinfo)

\* The provider publishes another discovery document or rotates its keys.
ProviderChange ==
    /\ NoLogoutPending
    /\ \E s \in ProviderStates :
          /\ s.conf # provider_conf
          /\ provider_conf' = s.conf
          /\ provider_jwks' = s.jwks
    /\ UNCHANGED <<logout_and_calls, clients, flows, begin_resp, tokens, users, runs>>

\* --------------------------------------------------------- logout view ----
\* settings.LOGOUT_REDIRECT_URL of a deployment: the two-issuer deployment
\* sets it, the others leave it unset.
DeploymentLogoutRedirect(deployment) ==
    IF "i2" \in DOMAIN deployment THEN "/bye" ELSE NoneV

\* Lines 313-316: the user's token rows whose logged_out is empty or null.
ActiveTokens(user) ==
    {t \in 1..Len(tokens) :
        tokens[t].user = user /\ tokens[t].logged_out \in {NoneV, ""}}

\* A logout that takes the user's first active token row.
FirstActiveToken(user) ==
    LET m == ActiveTokens(user)
    IN  IF m = {} THEN 0 ELSE CHOOSE t \in m : \A w \in m : t <= w

\* auth_tokens.last(): the row of highest primary key, 0 (None) when the
\* queryset is empty.
LastActiveToken(user) ==
    LET m == ActiveTokens(user)
    IN  IF m = {} THEN 0 ELSE CHOOSE t \in m : \A w \in m : t >= w

\* timezone.localtime(), as stored in logged_out.
localtime == "localtime"

\* oidc_rpinitiated_logout, for a request of an authenticated user.
Logout(user) ==
    LET auth_token == LastActiveToken(user)
        resp == [NoLogout EXCEPT !.user = user, !.auth_token = auth_token]
    IN  /\ NoLogoutPending
        /\ IF auth_token = 0
           THEN \* line 319: None has no attribute authz_request
                /\ logout_resp' = [resp EXCEPT !.kind = "exception",
                                               !.error = "AttributeError"]
                /\ UNCHANGED tokens
           ELSE LET authz == flows[tokens[auth_token].authz_request]
                    end_session_url ==
                        get_provider_configuration(authz).end_session_endpoint
                IN  IF end_session_url = NoneV
                    THEN \* lines 326-331
                         /\ logout_resp' =
                              [resp EXCEPT !.kind = "redirect",
                                           !.url = IF LOGOUT_REDIRECT_URL # NoneV
                                                   THEN LOGOUT_REDIRECT_URL ELSE "/"]
                         /\ UNCHANGED tokens
                    ELSE \* lines 332-340
                         /\ logout_resp' =
                              [resp EXCEPT !.kind = "redirect",
                                           !.end_session_url = end_session_url,
                                           !.url = end_session_url,
                                           !.id_token_hint = tokens[auth_token].id_token,
                                           !.post_logout_redirect_uri =
                                               LOGOUT_REDIRECT_URL]
                         /\ tokens' = [tokens EXCEPT ![auth_token].logged_out = localtime]
        /\ UNCHANGED <<clients, provider_conf, provider_jwks, flows, begin_resp, users,
                       runs, LOGOUT_REDIRECT_URL, mapper_call, reunification_call>>

\* login_required: any user of the user model may hold a session.
LogoutRequest == \E user \in 1..Len(users) : Logout(user)

\* The logout response is sent.
LogoutReturn ==
    /\ ~NoLogoutPending
    /\ logout_resp' = NoLogout
    /\ UNCHANGED <<clients, provider_conf, provider_jwks, flows, begin_resp, tokens,
                   users, runs, LOGOUT_REDIRECT_URL, mapper_call, reunification_call>>

\* ------------------------------------------------------- the program ----
\* No function application is being checked on its own.
NoCall == [called |-> FALSE]

Init ==
    /\ clients \in Deployments
    /\ LOGOUT_REDIRECT_URL = DeploymentLogoutRedirect(clients)
    /\ \E s \in ProviderStates : provider_conf = s.conf /\ provider_jwks = s.jwks
    /\ flows = <<>>
    /\ begin_resp = BeginResp(NoneV, NoneV, "none", NoneV, NoUrl, {}, 0)
    /\ tokens = <<>>
    /\ users = <<>>
    /\ runs = [p \in 1..NumCallbacks |-> IdleRun]
    /\ logout_resp = NoLogout
    /\ mapper_call = NoCall
    /\ reunification_call = NoCall

Next ==
    \/ BeginRequest
    \/ Callback
    \/ ProviderChange
    \/ LogoutRequest
    \/ LogoutReturn

Spec == Init /\ [][Next]_vars

\* ----------------------------------- process_user_attributes on its own ----
\* The views at rest: nothing configured is used, nothing has been requested.
ViewsAtRest ==
    /\ clients = [i \in {"i1"} |-> ClientI1]
    /\ LOGOUT_REDIRECT_URL = NoneV
    /\ \E s \in ProviderStates :
          s.jwks = {"K1"} /\ provider_conf = s.conf /\ provider_jwks = s.jwks
    /\ flows = <<>>
    /\ begin_resp = BeginResp(NoneV, NoneV, "none", NoneV, NoUrl, {}, 0)
    /\ tokens = <<>>
    /\ users = <<>>
    /\ runs = [p \in 1..NumCallbacks |-> IdleRun]
    /\ logout_resp = NoLogout

\* A map whose first candidate for email is a transform.
MapTransformFirst ==
    << <<"email", << <<"func", "lower_mail">>, <<"claim", "email">> >> >>,
       <<"username", << <<"func", "issuer_prefixed_sub">> >> >> >>

\* The maps process_user_attributes is applied to.
MapperMaps == {MapWithTransform, MapClaimsOnly, MapTransformFirst}

\* The userinfo documents it is applied to: each of sub, mail and email is
\* missing, empty (mail, email) or set.
MapperUserinfos ==
    { [k \in keys |-> CASE k = "sub" -> "u1"
                       [] k = "mail" -> mail
                       [] OTHER -> email] :
        keys \in SUBSET {"sub", "mail", "email"},
        mail \in {"", "X@Y.it"}, email \in {"", "a@b.it"} }

InitMapper ==
    /\ ViewsAtRest
    /\ reunification_call = NoCall
    /\ \E userinfo \in MapperUserinfos, user_map \in MapperMaps :
          mapper_call = [called |-> FALSE, userinfo |-> userinfo,
                         client_conf |-> [ClientI1 EXCEPT !.user_attributes_map = user_map],
                         raised |-> FALSE, data |-> EmptyDict]

\* process_user_attributes is applied to the userinfo and the configuration
\* drawn.
MapperApply ==
    LET userinfo == mapper_call.userinfo
        client_conf == mapper_call.client_conf
    IN  /\ ~mapper_call.called
        /\ mapper_call' =
             IF MapperRaises(userinfo, client_conf, NoneV)
             THEN [mapper_call EXCEPT !.called = TRUE, !.raised = TRUE]
             ELSE [mapper_call EXCEPT
                     !.called = TRUE,
                     !.data = process_user_attributes(userinfo, client_conf, NoneV)]
        /\ UNCHANGED <<clients, provider_conf, provider_jwks, flows, begin_resp, tokens,
                       users, runs, LOGOUT_REDIRECT_URL, logout_resp, reunification_call>>

NextMapper == MapperApply

SpecMapper == InitMapper /\ [][NextMapper]_vars

\* ---------------------------------------- user_reunification on its own ----
\* The user tables it is applied to.
ReunificationStores ==
    { <<>>,
      << [username |-> "mario", email |-> "a@b.it"] >>,
      << [username |-> "mario", email |-> "a@b.it"],
         [username |-> "anna", email |-> "a@b.it"] >>,
      << [username |-> "anna", email |-> "x@y.it"],
         [username |-> "mario", email |-> "a@b.it"] >>,
      << [username |-> "anna", email |-> ""],
         [username |-> "mario", email |-> "a@b.it"] >> }

\* The mapped attributes it is applied to (never the empty dict, line 273):
\* username, email and fiscal_number (an attribute the user model lacks),
\* each missing, empty or set.
ReunificationAttrs ==
    { [k \in keys |-> CASE k = "username" -> username
                       [] k = "email" -> email
                       [] OTHER -> "RSSMRA"] :
        keys \in SUBSET {"username", "email", "fiscal_number"},
        username \in {"", "mario", "anna"},
        email \in {"", "a@b.it", "x@y.it"} } \ {EmptyDict}

\* The values of client_conf['user_lookup_field'] it is applied to.
ReunificationLookups ==
    { <<"username">>, <<"email">>, <<"username", "email">>, <<"email", "username">> }

InitReunification ==
    /\ ViewsAtRest
    /\ mapper_call = NoCall
    /\ \E store \in ReunificationStores, user_attrs \in ReunificationAttrs,
          user_lookup_field \in ReunificationLookups, user_create \in BOOLEAN :
          reunification_call =
              [called |-> FALSE, store |-> store, user_attrs |-> user_attrs,
               client_conf |-> [ClientI1 EXCEPT !.user_lookup_field = user_lookup_field,
                                                !.user_create = user_create],
               user |-> 0, users |-> store, later |-> <<>>, now |-> store]

\* user_reunification is applied to the table, the attributes and the
\* configuration drawn: store is the table before, users the table after.
ReunificationApply ==
    LET res == user_reunification(reunification_call.store,
                                  reunification_call.user_attrs,
                                  reunification_call.client_conf)
    IN  /\ ~reunification_call.called
        /\ reunification_call' = [reunification_call EXCEPT !.called = TRUE,
                                                            !.user = res.user,
                                                            !.users = res.users,
                                                            !.now = res.users]
        /\ UNCHANGED <<clients, provider_conf, provider_jwks, flows, begin_resp, tokens,
                       users, runs, LOGOUT_REDIRECT_URL, logout_resp, mapper_call>>

\* After a successful callback, a later callback applies user_reunification
\* to the same attributes and the table as it is now; later lists the users
\* the later applications returned.
ReunificationApplyAgain ==
    LET res == user_reunification(reunification_call.now,
                                  reunification_call.user_attrs,
                                  reunification_call.client_conf)
    IN  /\ reunification_call.called
        /\ reunification_call.user # 0
        /\ Len(reunification_call.later) < MaxLaterLogins
        /\ reunification_call' =
              [reunification_call EXCEPT !.later = Append(@, res.user),
                                         !.now = res.users]
        /\ UNCHANGED <<clients, provider_conf, provider_jwks, flows, begin_resp, tokens,
                       users, runs, LOGOUT_REDIRECT_URL, logout_resp, mapper_call>>

NextReunification ==
    \/ ReunificationApply
    \/ ReunificationApplyAgain

SpecReunification == InitReunification /\ [][NextReunification]_vars

\* ------------------------------------------------- claims: begin view ----
\* The row the latest begin request created, when it created one.
BeginRow == flows[Len(flows)]

\* The latest begin request selected an issuer, got the provider's discovery
\* document and fetched its keys.
BeginBuilt ==
    /\ begin_resp.net_calls = {"discovery", "jwks"}
    /\ begin_resp.error # "Failed to get jwks"

\* C6: in a PKCE-enabled begin step the code_verifier is stored in the
\* persisted flow row and is neither a parameter nor a parameter value of the
\* redirect URL, which carries the code_challenge; a callback sends the stored
\* verifier in its token exchange.
PkceVerifierStaysServerSide ==
    /\ (begin_resp.kind = "redirect" /\ clients[begin_resp.issuer_id].add_ons_pkce) =>
          LET url == begin_resp.url
              verifier == random_string("verifier", Len(flows))
          IN  /\ "code_verifier" \in DOMAIN BeginRow.data
              /\ BeginRow.data["code_verifier"] = verifier
              /\ "code_verifier" \notin DOMAIN url.params
              /\ \A k \in DOMAIN url.params : url.params[k] # verifier
              /\ "code_challenge" \in DOMAIN url.params
              /\ url.params["code_challenge"] = BeginRow.data["code_challenge"]
    /\ \A p \in 1..NumCallbacks :
          (runs[p].token_call.made /\ clients[flows[runs[p].authz].issuer_id].add_ons_pkce) =>
              runs[p].token_call.code_verifier =
                  random_string("verifier", runs[p].authz)

\* C6 witness: a PKCE-enabled begin has redirected and a callback for its
\* flow has called the token endpoint.
PkceBeginAndExchangeDone ==
    /\ begin_resp.kind = "redirect"
    /\ clients[begin_resp.issuer_id].add_ons_pkce
    /\ \E p \in 1..NumCallbacks :
          runs[p].token_call.made /\ runs[p].authz = Len(flows)

\* C7 (as claimed): a begin step for an issuer without a PKCE policy that gets
\* through discovery and the key fetch creates one flow row and returns a
\* redirect without code_challenge; no flow row is left without a redirect.
BeginWithoutPkceRedirects ==
    (BeginBuilt /\ ~clients[begin_resp.issuer_id].add_ons_pkce) =>
        /\ begin_resp.kind = "redirect"
        /\ begin_resp.created = 1
        /\ "code_challenge" \notin DOMAIN begin_resp.url.params

\* C9: a begin request that returns a redirect has created exactly one flow
\* row, the only row whose state is the state parameter of the redirect URL;
\* a begin request that fails at discovery or at the key fetch answers with
\* an error and leaves the flow table as it was.
BeginStep(resp, before, after) ==
    /\ resp.kind = "redirect" =>
          /\ Len(after) = Len(before) + 1
          /\ SubSeq(after, 1, Len(before)) = before
          /\ after[Len(after)].state = resp.url.params["state"]
          /\ Cardinality({a \in 1..Len(after) :
                             after[a].state = resp.url.params["state"]}) = 1
    /\ resp.error \in {"Failed to get provider discovery", "Failed to get jwks"} =>
          /\ resp.kind = "bad_request"
          /\ after = before

RedirectHasOneFlowRow ==
    [][begin_resp' # begin_resp => BeginStep(begin_resp', flows, flows')]_vars

\* C9 witness: a second begin request has redirected.
SecondBeginRedirected == begin_resp.kind = "redirect" /\ Len(flows) = 2

\* C10 (as claimed): a begin request with no usable issuer configuration
\* fails with MisconfiguredIssuer, before any network call and without a flow
\* row; with one configured issuer and no issuer_id, that issuer is selected.
NoUsableIssuer(resp) ==
    \/ DOMAIN clients = {}
    \/ resp.issuer_id_param # NoneV /\ resp.issuer_id_param \notin DOMAIN clients

UnusableIssuerIsMisconfigured ==
    /\ (begin_resp.kind # "none" /\ NoUsableIssuer(begin_resp)) =>
          /\ begin_resp.kind = "exception"
          /\ begin_resp.error = "MisconfiguredClientIssuer"
          /\ begin_resp.net_calls = {}
          /\ begin_resp.created = 0
    /\ (begin_resp.kind # "none" /\ begin_resp.issuer_id_param = NoneV
          /\ Cardinality(DOMAIN clients) = 1) =>
          begin_resp.issuer_id \in DOMAIN clients

\* ---------------------------------------------- claims: callback view ----
Runs == 1..NumCallbacks

\* The request has arrived.
Arrived(p) == runs[p].pc # "idle"

\* C1 (as claimed): a callback that arrives after a callback carrying the same
\* state has entered the token exchange is rejected as 'Unsolicited response'
\* and performs no token exchange.
FlowsAreSingleUse ==
    \A p \in Runs :
        runs[p].replay =>
            /\ runs[p].response = "Unsolicited response"
            /\ runs[p].authz_token = 0
            /\ ~runs[p].token_call.made

\* C2 (as claimed): of two callbacks carrying the same state that both looked
\* the flow up before either entered the token exchange, at most one enters
\* the token exchange, and the other is answered 'Unsolicited response'.
RacingCallbacksHaveOneWinner ==
    \A p, q \in Runs :
        (/\ p # q
         /\ Arrived(p) /\ Arrived(q)
         /\ runs[p].query.state = runs[q].query.state
         /\ ~runs[p].replay /\ ~runs[q].replay
         /\ runs[p].token_call.made) =>
            /\ ~runs[q].token_call.made
            /\ runs[q].pc = "done" => runs[q].response = "Unsolicited response"

\* C3: a callback whose state matches no flow row is answered 'Unsolicited
\* response' in the step in which it arrives, and that step creates no token
\* row, calls neither the token nor the userinfo endpoint, leaves the user
\* table alone and logs nobody in; an answered callback does nothing more.
Unmatched(state) == \A a \in 1..Len(flows) : flows[a].state # state

UnsolicitedStep(p) ==
    /\ (~Arrived(p) /\ Arrived(p)' /\ Unmatched(runs[p].query.state')) =>
          /\ runs[p].pc' = "done"
          /\ runs[p].response' = "Unsolicited response"
          /\ runs[p].authz_token' = 0
          /\ ~runs[p].token_call.made'
          /\ runs[p].userinfo_call' = NoneV
          /\ runs[p].user' = 0 /\ runs[p].login' = 0
          /\ tokens' = tokens
          /\ users' = users
    /\ runs[p].pc = "done" => runs[p]' = runs[p]

UnknownStateIsUnsolicited == [][\A p \in Runs : UnsolicitedStep(p)]_vars

\* C3 witness: with a flow pending, a callback carrying another state has been
\* answered 'Unsolicited response'.
UnsolicitedAnswered ==
    \E p \in Runs :
        /\ runs[p].response = "Unsolicited response"
        /\ runs[p].query.state = "bogus"
        /\ Len(flows) > 0

\* C4: after a token response, the callback goes on to the userinfo call if
\* and only if the id_token validates against the key set of the request; a
\* callback with an invalid id_token is answered with the validation error,
\* without a userinfo call, a user or a login; the access_token's validation
\* (valid, invalid, no JWT) does not enter.
GotTokens(p) == runs[p].token_call.made /\ runs[p].token_request # NoTokenResponse

IdTokenValid(p) == validate_jwt(runs[p].token_request.id_token, runs[p].keyjar)

AccessTokenValid(p) == validate_jwt(runs[p].token_request.access_token, runs[p].keyjar)

PastValidation(p) == runs[p].pc = "userinfo" \/ runs[p].userinfo_call # NoneV

IdTokenDecides ==
    \A p \in Runs :
        GotTokens(p) =>
            /\ PastValidation(p) <=> IdTokenValid(p)
            /\ ~IdTokenValid(p) =>
                  /\ runs[p].pc = "done"
                  /\ runs[p].response = "Authentication token validation error."
                  /\ runs[p].userinfo_call = NoneV
                  /\ runs[p].user = 0 /\ runs[p].login = 0
                  /\ tokens[runs[p].authz_token].user = 0

\* C4 witness: a callback has gone past validation with a JWT access token
\* that does not validate, and another was rejected for its id_token while
\* its access token validates.
AccessTokenIgnored ==
    /\ \E p \in Runs :
          /\ GotTokens(p) /\ PastValidation(p)
          /\ runs[p].token_request.access_token = "at.K1" /\ ~AccessTokenValid(p)
    /\ \E p \in Runs :
          GotTokens(p) /\ ~PastValidation(p) /\ AccessTokenValid(p)

\* C5 (as claimed): a callback carrying an error response and the state of a
\* flow row is answered AuthorizationDenied: not 'Unsolicited response', and
\* without a token row or a token exchange.
ErrorResponseIsDenied ==
    \A p \in Runs :
        (/\ Arrived(p)
         /\ runs[p].query.error # NoneV /\ runs[p].query.code = NoneV
         /\ runs[p].authz # 0) =>
            /\ runs[p].pc = "done" => runs[p].response = "AuthorizationDenied"
            /\ ~runs[p].token_call.made

\* C8: a callback calls the token endpoint and the userinfo endpoint of the
\* discovery document stored in its flow row and validates against the key
\* set stored there, whatever the provider serves now; two callbacks for the
\* same flow row that get the same token response agree on its validation.
Snapshot(p) == flows[runs[p].authz]

Validated(p) == GotTokens(p)

Accepted(p) == runs[p].response # "Authentication token validation error."

ValidationIsPinned ==
    /\ \A p \in Runs :
          /\ runs[p].token_call.made =>
                runs[p].token_call.endpoint =
                    Snapshot(p).provider_configuration.token_endpoint
          /\ Validated(p) => runs[p].keyjar = Snapshot(p).provider_jwks
          /\ runs[p].userinfo_call # NoneV =>
                runs[p].userinfo_call =
                    Snapshot(p).provider_configuration.userinfo_endpoint
    /\ \A p, q \in Runs :
          (/\ Validated(p) /\ Validated(q)
           /\ runs[p].authz = runs[q].authz
           /\ runs[p].token_request = runs[q].token_request) =>
              Accepted(p) = Accepted(q)

\* C8 witness: two callbacks for one flow row got the same token response and
\* went on to the userinfo call, and the provider now serves other keys and
\* another discovery document than the row holds.
PinnedAfterRotation ==
    \E p, q \in Runs :
        /\ p # q
        /\ Validated(p) /\ Validated(q)
        /\ runs[p].authz = runs[q].authz
        /\ runs[p].token_request = runs[q].token_request
        /\ runs[p].userinfo_call # NoneV /\ runs[q].userinfo_call # NoneV
        /\ provider_jwks # Snapshot(p).provider_jwks
        /\ provider_conf # Snapshot(p).provider_configuration

\* ------------------------------------------------ claims: logout view ----
\* The fallback of a logout without an end-session endpoint.
LogoutFallback == IF LOGOUT_REDIRECT_URL # NoneV THEN LOGOUT_REDIRECT_URL ELSE "/"

\* A logout request has been answered for a user with an active token whose
\* flow snapshot advertises no end-session endpoint.
LogoutWithoutEndSession ==
    /\ logout_resp.kind # "none"
    /\ logout_resp.auth_token # 0
    /\ get_provider_configuration(flows[tokens[logout_resp.auth_token].authz_request])
          .end_session_endpoint = NoneV

\* C11 (as claimed): when the provider configuration of the flow advertises no
\* end-session endpoint, the logout redirects to the fallback location
\* (LOGOUT_REDIRECT_URL, else "/") and the user's most recent active token is
\* marked with a logout time all the same.
LogoutWithoutEndSessionMarksToken ==
    LogoutWithoutEndSession =>
        /\ logout_resp.kind = "redirect"
        /\ logout_resp.url = LogoutFallback
        /\ tokens[logout_resp.auth_token].logged_out \notin {NoneV, ""}

\* C12 (as claimed): a logout request of a user without any active token (none
\* at all, or all of them logged out) is answered with a client error, not a
\* crash.
LogoutWithoutTokenIsClientError ==
    (logout_resp.kind # "none" /\ ActiveTokens(logout_resp.user) = {}
        /\ logout_resp.auth_token = 0)
    => logout_resp.kind = "client_error"

\* The user's token rows without a logout time, read off the table.
Unmarked(user) ==
    {t \in 1..Len(tokens) : tokens[t].user = user /\ tokens[t].logged_out = NoneV}

\* The provider configuration a token row's flow was started with.
TokenSnapshot(t) == flows[tokens[t].authz_request].provider_configuration

\* A step that answers a logout request of this user.
LogoutStep(user) ==
    /\ logout_resp.kind = "none"
    /\ logout_resp'.kind # "none"
    /\ logout_resp'.user = user

\* C13: a logout with an advertised end-session endpoint targets the most
\* recent token of the user that has no logout time: the redirect goes to the
\* end-session endpoint with that token's id_token as id_token_hint, that
\* token gets its logout time, and every other token row is left as it was.
LogoutMarksMostRecentActiveToken ==
    [][\A user \in 1..Len(users) :
         \A t \in Unmarked(user) :
            (/\ LogoutStep(user)
             /\ \A w \in Unmarked(user) : w <= t
             /\ TokenSnapshot(t).end_session_endpoint # NoneV)
            => /\ logout_resp'.kind = "redirect"
               /\ logout_resp'.url = TokenSnapshot(t).end_session_endpoint
               /\ logout_resp'.id_token_hint = tokens[t].id_token
               /\ tokens'[t].logged_out \notin {NoneV, ""}
               /\ tokens' = [tokens EXCEPT ![t].logged_out = tokens'[t].logged_out]
      ]_vars

\* A user with two tokens of different id_token, the earlier one still
\* active, has been logged out at the end-session endpoint with the later one.
LogoutOfSecondLogin ==
    /\ logout_resp.kind = "redirect"
    /\ logout_resp.end_session_url # NoneV
    /\ \E t \in 1..Len(tokens) :
          /\ t < logout_resp.auth_token
          /\ tokens[t].user = logout_resp.user
          /\ tokens[t].logged_out = NoneV
          /\ tokens[t].id_token # tokens[logout_resp.auth_token].id_token
          /\ logout_resp.id_token_hint = tokens[logout_resp.auth_token].id_token
          /\ tokens[logout_resp.auth_token].logged_out = localtime

\* ------------------------------------------- claims: attribute mapping ----
\* The value a candidate contributes when an empty value counts as none and
\* a transform that raises counts as yielding none: "" for no value.
NonEmptyValue(i, userinfo, client_conf) ==
    IF i[1] = "claim"
    THEN IF i[2] \in DOMAIN userinfo THEN userinfo[i[2]] ELSE ""
    ELSE IF TransformRaises(i[2], userinfo, client_conf, NoneV) THEN ""
    ELSE Transform(i[2], userinfo, client_conf, NoneV)

\* The first non-empty value among the candidates v, "" when there is none.
FirstNonEmpty(v, userinfo, client_conf) ==
    LET idx == {n \in 1..Len(v) : NonEmptyValue(v[n], userinfo, client_conf) # ""}
    IN  IF idx = {} THEN ""
        ELSE NonEmptyValue(v[CHOOSE n \in idx : \A o \in idx : n <= o],
                           userinfo, client_conf)

\* The mapping with, for every field, its first non-empty value.
FirstNonEmptyAttrs(userinfo, client_conf) ==
    LET user_map == client_conf.user_attributes_map
        set == {j \in 1..Len(user_map) :
                   FirstNonEmpty(user_map[j][2], userinfo, client_conf) # ""}
    IN  [k \in {user_map[j][1] : j \in set} |->
            FirstNonEmpty(user_map[CHOOSE j \in set : user_map[j][1] = k][2],
                          userinfo, client_conf)]

\* C14 (as claimed): when the mapping returns, every field has the first non-
\* empty value among its candidates, in order: an earlier candidate that is
\* missing or empty is passed over, a later one never overrides, and a field
\* without any value is left out.
MapperYieldsFirstNonEmpty ==
    (mapper_call.called /\ ~mapper_call.raised)
    => mapper_call.data =
           FirstNonEmptyAttrs(mapper_call.userinfo, mapper_call.client_conf)

\* Whether a candidate yields when a claim yields by being present and a
\* transform that raises counts as yielding none.
YieldsOrRaises(i, userinfo, client_conf) ==
    IF i[1] = "claim" THEN i[2] \in DOMAIN userinfo
    ELSE NonEmptyValue(i, userinfo, client_conf) # ""

\* The first yielding candidate's value among v; 0 candidates: none.
FirstYielding(v, userinfo, client_conf) ==
    LET idx == {n \in 1..Len(v) : YieldsOrRaises(v[n], userinfo, client_conf)}
    IN  IF idx = {} THEN [found |-> FALSE, value |-> ""]
        ELSE [found |-> TRUE,
              value |-> NonEmptyValue(v[CHOOSE n \in idx : \A o \in idx : n <= o],
                                      userinfo, client_conf)]

\* The mapping in which a raising transform is passed over.
AttrsPassingOverErrors(userinfo, client_conf) ==
    LET user_map == client_conf.user_attributes_map
        set == {j \in 1..Len(user_map) :
                   FirstYielding(user_map[j][2], userinfo, client_conf).found}
    IN  [k \in {user_map[j][1] : j \in set} |->
            FirstYielding(user_map[CHOOSE j \in set : user_map[j][1] = k][2],
                          userinfo, client_conf).value]

\* C15 (as claimed): a transform that raises is treated as yielding no value:
\* the mapping does not fail, it goes on with the next candidate of the field
\* and with the remaining fields.
TransformErrorIsNoValue ==
    mapper_call.called
    => /\ ~mapper_call.raised
       /\ mapper_call.data =
              AttrsPassingOverErrors(mapper_call.userinfo, mapper_call.client_conf)

\* ------------------------------------------- claims: user reunification ----
\* The identities of the table a lookup field matches with its mapped
\* value; none when the value is missing or empty.
Matches(store, field_name, user_attrs) ==
    IF field_name \in DOMAIN user_attrs /\ user_attrs[field_name] # ""
    THEN {u \in 1..Len(store) : store[u][field_name] = user_attrs[field_name]}
    ELSE {}

\* The positions in the lookup fields that match some identity.
MatchingPositions(store, field_names, user_attrs) ==
    {n \in 1..Len(field_names) : Matches(store, field_names[n], user_attrs) # {}}

\* The identities matched by the first lookup field that matches any.
FirstMatches(store, field_names, user_attrs) ==
    LET pos == MatchingPositions(store, field_names, user_attrs)
    IN  IF pos = {} THEN {}
        ELSE Matches(store, field_names[CHOOSE n \in pos : \A o \in pos : n <= o],
                     user_attrs)

\* The application returned an identity of the table it was given, found
\* through the first lookup field that matches, and created none; an
\* identity of the table is returned in no other case.
ResolvedByFirstMatch ==
    LET call == reunification_call
        first == FirstMatches(call.store, call.client_conf.user_lookup_field,
                              call.user_attrs)
    IN  IF first = {}
        THEN call.user \notin 1..Len(call.store)
        ELSE /\ call.user \in first
             /\ Len(call.users) = Len(call.store)
             /\ \A u \in 1..Len(call.store) : u # call.user => call.users[u] = call.store[u]
             /\ call.users[call.user]["username"] = call.store[call.user]["username"]

\* The attributes written onto the identity returned: all of these.
Written(attributes) ==
    LET call == reunification_call
    IN  call.user \in 1..Len(call.store)
        => \A k \in attributes \ {"username"} :
              /\ k \in DOMAIN call.users[call.user]
              /\ call.users[call.user][k] = call.user_attrs[k]

\* C16 (as claimed): the lookup fields are tried in order, the first one with
\* a non-empty mapped value and a matching identity wins, and the result is
\* that identity with every mapped attribute but username written onto it.
EveryMappedAttributeWritten ==
    reunification_call.called
    => ResolvedByFirstMatch /\ Written(DOMAIN reunification_call.user_attrs)

\* C16: the lookup fields are tried in order, the first one with a non-empty
\* mapped value and a matching identity wins (an empty or missing value is
\* never looked up), no identity is created, and the result is that identity
\* with every mapped attribute that the identity has, but username, written
\* onto it and nothing else changed.
FirstMatchWinsAndIsUpdated ==
    reunification_call.called
    => /\ ResolvedByFirstMatch
       /\ Written(DOMAIN reunification_call.user_attrs \cap UserFields)
       /\ reunification_call.user \in 1..Len(reunification_call.store)
           => DOMAIN reunification_call.users[reunification_call.user] = UserFields

\* An identity was found by the second lookup field, after a first one whose
\* non-empty value matched nothing, and its email was rewritten while an
\* attribute it lacks was passed over.
MatchedBySecondFieldAndUpdated ==
    LET call == reunification_call
    IN  /\ call.called
        /\ call.user \in 1..Len(call.store)
        /\ call.client_conf.user_lookup_field = <<"email", "username">>
        /\ Truthy(call.user_attrs, "email")
        /\ Matches(call.store, "email", call.user_attrs) = {}
        /\ call.users[call.user]["email"] # call.store[call.user]["email"]
        /\ "fiscal_number" \in DOMAIN call.user_attrs

\* The configuration of the issuer a callback request's flow belongs to.
RunConf(p) == clients[flows[runs[p].authz].issuer_id]

\* A step in which callback request p comes to the user reunification: it
\* ends the request after a non-empty attribute set was mapped.
ReunificationStep(p) ==
    /\ runs[p].pc = "userinfo"
    /\ runs'[p].pc = "done"
    /\ runs'[p].user_attrs # EmptyDict

\* C17: when no lookup field matches an identity and creation is disallowed,
\* or allowed but failing, the callback is rejected with the reunification
\* failure: no user is resolved, no session is logged in, no user is put on
\* the token row and the user table is unchanged.
NoUserMeansRejected ==
    [][\A p \in 1..NumCallbacks :
         (/\ ReunificationStep(p)
          /\ FirstMatches(users, RunConf(p).user_lookup_field, runs'[p].user_attrs) = {}
          /\ ~RunConf(p).user_create \/ CreateRaises(users, runs'[p].user_attrs))
         => /\ runs'[p].response = "PermissionDenied"
            /\ runs'[p].user = 0
            /\ runs'[p].login = 0
            /\ users' = users
            /\ tokens' = tokens
            /\ tokens'[runs[p].authz_token].user = 0
      ]_vars

\* A callback was rejected because the creation of its user failed: no lookup
\* field matches, creation is allowed, and the user table is as it was.
RejectedForNoUser ==
    \E p \in 1..NumCallbacks :
        /\ runs[p].response = "PermissionDenied"
        /\ RunConf(p).user_create
        /\ users # <<>>
        /\ FirstMatches(users, RunConf(p).user_lookup_field, runs[p].user_attrs) = {}
        /\ tokens[runs[p].authz_token].user = 0

\* ------------------------------------------- claims: callback order ----
\* What callback request p has been through, read off its record and the
\* stores: its flow resolved by the state parameter, a token response
\* obtained, the id_token valid under the flow's key snapshot, a userinfo
\* document obtained, a non-empty attribute set mapped, a user resolved.
FlowResolved(p) ==
    /\ runs[p].authz \in 1..Len(flows)
    /\ flows[runs[p].authz].state = runs[p].query.state

TokenObtained(p) ==
    runs[p].token_call.made /\ runs[p].token_request # NoTokenResponse

TokenValidated(p) ==
    /\ runs[p].authz \in 1..Len(flows)
    /\ validate_jwt(runs[p].token_request.id_token, flows[runs[p].authz].provider_jwks)

UserinfoFetched(p) == runs[p].userinfo_call # NoneV /\ runs[p].userinfo # EmptyDict

AttributesMapped(p) == runs[p].user_attrs # EmptyDict

UserResolved(p) == runs[p].user \in 1..Len(users)

\* The request logged a session in, or its token row has a user.
LoggedIn(p) ==
    \/ runs[p].login # 0
    \/ runs[p].authz_token # 0 /\ tokens[runs[p].authz_token].user # 0

\* C18: the callback goes through its steps in order without skipping one:
\* a request that has a later step's result has every earlier step's; a
\* session login and a user on a token row come only with a request that
\* has resolved its flow, obtained a token response, validated the
\* id_token, obtained userinfo, mapped a non-empty attribute set and
\* resolved a user; and a request that ended otherwise has no login and no
\* user on its token row.
CallbackStepsInOrder ==
    /\ \A p \in 1..NumCallbacks :
          /\ UserResolved(p) => AttributesMapped(p)
          /\ AttributesMapped(p) => UserinfoFetched(p)
          /\ runs[p].userinfo_call # NoneV => TokenValidated(p)
          /\ runs[p].keyjar # {} => TokenObtained(p)
          /\ runs[p].token_call.made => FlowResolved(p)
          /\ LoggedIn(p) =>
                /\ FlowResolved(p) /\ TokenObtained(p) /\ TokenValidated(p)
                /\ UserinfoFetched(p) /\ AttributesMapped(p) /\ UserResolved(p)
                /\ runs[p].pc = "done" /\ runs[p].response = "redirect"
                /\ runs[p].login = runs[p].user
                /\ tokens[runs[p].authz_token].user = runs[p].user
          /\ (runs[p].pc = "done" /\ runs[p].response # "redirect") => ~LoggedIn(p)
    /\ \A t \in 1..Len(tokens) :
          tokens[t].user # 0 => \E p \in 1..NumCallbacks : runs[p].authz_token = t

\* One request went through every step and logged its user in; another
\* obtained tokens and ended at the validation of the id_token.
LoginAfterAllSteps ==
    \E p, q \in 1..NumCallbacks :
        /\ LoggedIn(p) /\ runs[p].response = "redirect"
        /\ runs[q].response = "Authentication token validation error."
        /\ TokenObtained(q) /\ ~LoggedIn(q)

\* --------------------------------------------- claims: token records ----
\* Every callback request that created this token row has ended.
TokenRowSettled(t) ==
    \A p \in 1..NumCallbacks : runs[p].authz_token = t => runs[p].pc = "done"

\* C19 (as claimed): a token row exists only for a flow whose token exchange
\* succeeded: once the callbacks have ended, every token row holds an access
\* token and an id token, and a callback rejected at the token exchange has
\* left none.
TokenRowsHoldTokens ==
    \A t \in 1..Len(tokens) :
        TokenRowSettled(t)
        => tokens[t].access_token # NoneV /\ tokens[t].id_token # NoneV

\* ------------------------------------- claims: repeated reunification ----
\* Some configured lookup field has a non-empty mapped value.
LookupValueMapped(call) ==
    \E n \in 1..Len(call.client_conf.user_lookup_field) :
        LET field_name == call.client_conf.user_lookup_field[n]
        IN  field_name \in DOMAIN call.user_attrs /\ call.user_attrs[field_name] # ""

\* C20: for successful callbacks that present the same mapped attributes,
\* with a non-empty value for some lookup field, the first creates at most
\* one identity and every later one resolves to the identity of the first:
\* the table grows by at most one row over the whole sequence.
ReunificationIsIdempotent ==
    (reunification_call.called /\ reunification_call.user # 0
        /\ LookupValueMapped(reunification_call))
    => /\ Len(reunification_call.users) <= Len(reunification_call.store) + 1
       /\ \A n \in 1..Len(reunification_call.later) :
             reunification_call.later[n] = reunification_call.user
       /\ Len(reunification_call.now) = Len(reunification_call.users)

\* The first application created an identity, in a table that had others,
\* and both later applications have been made.
CreatedOnceThenReunified ==
    /\ reunification_call.called
    /\ LookupValueMapped(reunification_call)
    /\ reunification_call.store # <<>>
    /\ reunification_call.user = Len(reunification_call.store) + 1
    /\ Len(reunification_call.later) = MaxLaterLogins
    /\ Len(reunification_call.now) = Len(reunification_call.store) + 1
====
